---- MODULE Spec2Model ----
(***************************************************************************)
(* Roommate interview scheduler (src/app.py): the events table, the        *)
(* timestamp normalizer parse_iso, the conflict detector find_conflicts    *)
(* and the request handlers create_event, update_event, delete_event and   *)
(* list_events.                                                            *)
(*                                                                         *)
(* A string is a sequence of one-character strings.  A timestamp keeps the *)
(* shape of an ISO-8601 date-time but only three of its fields: one digit  *)
(* for the date (the day), two for the hour and two for the seconds,       *)
(*     D T HH [ : SS [ . F ] ] [ Z | +HH | -HH ]                           *)
(* so that the normalized form  D T HH : SS [Z]  is fixed-width, as the    *)
(* program's YYYY-MM-DDTHH:MM:SS[Z] is.  A JSON value is a record tagged   *)
(* by its type and a JSON object is a record holding the keys present.     *)
(***************************************************************************)
EXTENDS Integers, Sequences, FiniteSets, TLC

VARIABLES db_mode, roommates, nextRoommateId, events, nextId, pc, req, resp, before

vars == <<db_mode, roommates, nextRoommateId, events, nextId, pc, req, resp, before>>

(***************************************************************************)
(* Bounds of the model.                                                    *)
(***************************************************************************)
\* events ever inserted (ids are never reused)
MaxId == 2

\* the latest hour of the timestamps the requests carry
MaxHour == 11

\* Body(v), with v evaluated once
Let(v, Body(_)) == CHOOSE r \in {Body(x) : x \in {v}} : TRUE

(***************************************************************************)
(* Strings.                                                                *)
(***************************************************************************)
Digits == <<"0", "1", "2", "3", "4", "5", "6", "7", "8", "9">>

IsDigit(c) == c \in {"0", "1", "2", "3", "4", "5", "6", "7", "8", "9"}

\* ord(c) of the characters that timestamps are made of
Ord(c) ==
    CASE c = "0" -> 48 [] c = "1" -> 49 [] c = "2" -> 50 [] c = "3" -> 51
      [] c = "4" -> 52 [] c = "5" -> 53 [] c = "6" -> 54 [] c = "7" -> 55
      [] c = "8" -> 56 [] c = "9" -> 57 [] c = ":" -> 58 [] c = "T" -> 84
      [] c = "Z" -> 90 [] c = " " -> 32 [] c = "+" -> 43 [] c = "-" -> 45
      [] c = "." -> 46

DigitVal(c) == Ord(c) - Ord("0")

DigitChar(n) == Digits[n + 1]

\* the length of the longest common prefix of a and b
RECURSIVE CommonPrefix(_, _, _)
CommonPrefix(a, b, n) ==
    IF n < Len(a) /\ n < Len(b) /\ a[n + 1] = b[n + 1]
    THEN CommonPrefix(a, b, n + 1)
    ELSE n

\* str < str of Python and TEXT < TEXT of SQL: code point order, a proper
\* prefix first
StrLess(a, b) ==
    LET n == CommonPrefix(a, b, 0)
    IN  IF n = Len(a) THEN n < Len(b)
        ELSE IF n = Len(b) THEN FALSE
        ELSE Ord(a[n + 1]) < Ord(b[n + 1])

RECURSIVE LStrip(_)
LStrip(s) == IF s # <<>> /\ Head(s) = " " THEN LStrip(Tail(s)) ELSE s

RECURSIVE RStrip(_)
RStrip(s) ==
    IF s # <<>> /\ s[Len(s)] = " " THEN RStrip(SubSeq(s, 1, Len(s) - 1)) ELSE s

\* str.strip()
Strip(s) == RStrip(LStrip(s))

\* str.replace(' ', 'T')
RECURSIVE ReplaceSpace(_)
ReplaceSpace(s) ==
    IF s = <<>> THEN <<>>
    ELSE <<IF Head(s) = " " THEN "T" ELSE Head(s)>> \o ReplaceSpace(Tail(s))

(***************************************************************************)
(* JSON values and objects.                                                *)
(***************************************************************************)
JNull == [t |-> "null"]
JStr(s) == [t |-> "str", s |-> s]
JInt(n) == [t |-> "int", n |-> n]
JBool(b) == [t |-> "bool", b |-> b]

\* dict.get(key): None when the key is absent
Get(data, key) == IF key \in DOMAIN data THEN data[key] ELSE JNull

\* Python truthiness of a JSON value
Truthy(v) ==
    CASE v.t = "null" -> FALSE
      [] v.t = "str" -> v.s # <<>>
      [] v.t = "int" -> v.n # 0
      [] v.t = "bool" -> v.b

\* (data.get(key) or default).strip()
TextOr(data, key, default) ==
    LET v == Get(data, key) IN Strip(IF Truthy(v) THEN v.s ELSE default)

(***************************************************************************)
(* Timestamp normalizer.                                                   *)
(***************************************************************************)
AreDigits(s, i, n) == \A k \in i..(i + n - 1) : IsDigit(s[k])

TwoDigitVal(s, i) == DigitVal(s[i]) * 10 + DigitVal(s[i + 1])

TwoDigitChars(n) == <<DigitChar(n \div 10), DigitChar(n % 10)>>

\* s ends with a numeric UTC offset, +HH or -HH
HasZone(s) == Len(s) >= 3 /\ s[Len(s) - 2] \in {"+", "-"}

ZonePart(s) == SubSeq(s, Len(s) - 2, Len(s))

BodyPart(s) == IF HasZone(s) THEN SubSeq(s, 1, Len(s) - 3) ELSE s

\* date and time with optional seconds and optional fractional seconds
ValidBody(b) ==
    /\ Len(b) \in {4, 7, 9}
    /\ IsDigit(b[1]) /\ DigitVal(b[1]) >= 1
    /\ b[2] = "T"
    /\ AreDigits(b, 3, 2) /\ TwoDigitVal(b, 3) <= 23
    /\ Len(b) >= 7 =>
        b[5] = ":" /\ AreDigits(b, 6, 2) /\ TwoDigitVal(b, 6) <= 59
    /\ Len(b) = 9 => b[8] = "." /\ IsDigit(b[9])

ValidZone(z) == AreDigits(z, 2, 2) /\ TwoDigitVal(z, 2) <= 23

\* the strings datetime.fromisoformat or one of the strptime patterns accepts
Accepted(s) ==
    /\ ValidBody(BodyPart(s))
    /\ HasZone(s) => ValidZone(ZonePart(s))

\* the datetime an accepted string denotes; tzinfo is <<>> (naive) or
\* <<offset in hours>>
DateTimeOf(s) ==
    LET b == BodyPart(s)
        z == ZonePart(s)
    IN  [day |-> DigitVal(b[1]),
         hour |-> TwoDigitVal(b, 3),
         second |-> IF Len(b) >= 7 THEN TwoDigitVal(b, 6) ELSE 0,
         microsecond |-> IF Len(b) = 9 THEN DigitVal(b[9]) ELSE 0,
         tzinfo |-> IF HasZone(s)
                    THEN <<(IF z[1] = "-" THEN -1 ELSE 1) * TwoDigitVal(z, 2)>>
                    ELSE <<>>]

\* seconds of the instant dt denotes in UTC, counted from day 0 (an hour
\* has 60 of them: the format has no minutes field)
UtcSeconds(dt) == (dt.day * 24 + dt.hour - dt.tzinfo[1]) * 60 + dt.second

\* datetime.MINYEAR/MAXYEAR: the days a datetime can hold
InRange(total) == total >= 24 * 60 /\ total < 10 * 24 * 60

\* dt.astimezone(timezone.utc), for an aware dt in range
AsTimezoneWallClock(dt) == [dt EXCEPT !.tzinfo = <<0>>]

AsTimezoneUtc(dt) ==
    LET total == UtcSeconds(dt)
    IN  [day |-> total \div (24 * 60),
         hour |-> (total \div 60) % 24,
         second |-> total % 60,
         microsecond |-> dt.microsecond,
         tzinfo |-> <<0>>]

\* dt.replace(microsecond=0)
ReplaceMicrosecond(dt) == [dt EXCEPT !.microsecond = 0]

\* dt.isoformat(): seconds always, the fraction only when it is not zero
IsoFormatNoPad(dt) ==
    <<DigitChar(dt.day), "T">>
    \o (IF dt.hour < 10 THEN <<DigitChar(dt.hour)>> ELSE TwoDigitChars(dt.hour))
    \o <<":">> \o TwoDigitChars(dt.second)
    \o (IF dt.microsecond # 0 THEN <<".", DigitChar(dt.microsecond)>> ELSE <<>>)
    \o (IF dt.tzinfo = <<>>
        THEN <<>>
        ELSE <<IF dt.tzinfo[1] < 0 THEN "-" ELSE "+">>
             \o TwoDigitChars(IF dt.tzinfo[1] < 0 THEN -dt.tzinfo[1] ELSE dt.tzinfo[1]))

IsoFormat(dt) ==
    <<DigitChar(dt.day), "T">> \o TwoDigitChars(dt.hour)
    \o <<":">> \o TwoDigitChars(dt.second)
    \o (IF dt.microsecond # 0 THEN <<".", DigitChar(dt.microsecond)>> ELSE <<>>)
    \o (IF dt.tzinfo = <<>>
        THEN <<>>
        ELSE <<IF dt.tzinfo[1] < 0 THEN "-" ELSE "+">>
             \o TwoDigitChars(IF dt.tzinfo[1] < 0 THEN -dt.tzinfo[1] ELSE dt.tzinfo[1]))

\* .replace('+00:00', 'Z') on the rendering of a UTC datetime
ReplaceUtc(s) ==
    IF HasZone(s) /\ ZonePart(s) = <<"+", "0", "0">>
    THEN BodyPart(s) \o <<"Z">>
    ELSE s

\* s[:-1] + '+00:00' if s.endswith('Z') else s
ExpandZ(s) ==
    IF s # <<>> /\ s[Len(s)] = "Z"
    THEN SubSeq(s, 1, Len(s) - 1) \o <<"+", "0", "0">>
    ELSE s

\* the normalized form of the datetime dt: timezone-aware -> UTC Z, naive ->
\* kept as it is, with seconds
Normalized(dt) ==
    IF dt.tzinfo # <<>>
    THEN IF ~InRange(UtcSeconds(dt))
         THEN [ok |-> FALSE, exc |-> "OverflowError"]
         ELSE [ok |-> TRUE,
               s |-> ReplaceUtc(IsoFormat(ReplaceMicrosecond(AsTimezoneUtc(dt))))]
    ELSE [ok |-> TRUE, s |-> IsoFormat(ReplaceMicrosecond(dt))]

\* parse_iso(ts): [ok |-> TRUE, s |-> the normalized string], or the
\* exception it raises
parse_iso(ts) ==
    IF ts.t # "str" \/ Strip(ts.s) = <<>>
    THEN [ok |-> FALSE, exc |-> "ValueError"]
    ELSE Let(ExpandZ(ReplaceSpace(Strip(ts.s))),
             LAMBDA s : IF ~Accepted(s)
                        THEN [ok |-> FALSE, exc |-> "ValueError"]
                        ELSE Let(DateTimeOf(s), LAMBDA dt : Normalized(dt)))

(***************************************************************************)
(* The store: the roommates and events tables.                             *)
(***************************************************************************)
\* the seeded roster: name, color
defaults ==
    << <<  <<"V", "a", "t", "s", "a", "l">>, <<"#", "3", "7", "7", "8", "C", "2">>  >>,
       <<  <<"G", "a", "n", "e", "s", "h">>, <<"#", "E", "F", "6", "C", "3", "3">>  >>,
       <<  <<"J", "e", "n", "i", "l">>, <<"#", "2", "B", "A", "F", "2", "B">>  >>,
       <<  <<"S", "h", "i", "b", "i", "n">>, <<"#", "8", "E", "4", "4", "A", "D">>  >>,
       <<  <<"J", "e", "e", "v", "a", "n">>, <<"#", "C", "0", "3", "9", "2", "B">>  >>,
       <<  <<"S", "a", "r", "w", "e", "s", "h">>, <<"#", "1", "6", "A", "0", "8", "5">>  >>,
       <<  <<"T", "u", "s", "h", "a", "r">>, <<"#", "D", "3", "5", "4", "0", "0">>  >>,
       <<  <<"R", "a", "j", "e", "e", "v">>, <<"#", "7", "F", "8", "C", "8", "D">>  >>,
       <<  <<"V", "i", "n", "e", "e", "t">>, <<"#", "F", "1", "C", "4", "0", "F">>  >>,
       <<  <<"P", "r", "a", "k", "h", "a", "r">>, <<"#", "1", "A", "B", "C", "9", "C">>  >>,
       <<  <<"S", "r", "i", "n", "i", "d", "h", "i">>, <<"#", "9", "B", "5", "9", "B", "6">>  >> >>

\* the roommates table after init_db on an empty database: id -> row
SeededRoommates ==
    [id \in 1..Len(defaults) |-> [name |-> defaults[id][1], color |-> defaults[id][2]]]

\* the default title of an event
Interview == <<"I", "n", "t", "e", "r", "v", "i", "e", "w">>

\* the row of the events table with this id, as a set of at most one row
EventById(id) == {e \in events : e.id = id}

\* a lookup that finds a row for every integer
RoommateExistsAny(v) == v.t = "int"

\* SELECT id FROM roommates WHERE id=?
RoommateExists(v) == v.t = "int" /\ v.n \in DOMAIN roommates

\* the orders in which a SELECT with no ORDER BY may return the rows
Orderings(rows) ==
    {f \in [1..Cardinality(rows) -> rows] :
        \A i, j \in 1..Cardinality(rows) : i # j => f[i] # f[j]}

\* ORDER BY e.start: ascending, rows of equal start in any order
OrderedByStart(rows) ==
    {f \in Orderings(rows) :
        \A i, j \in 1..Cardinality(rows) :
            i < j => ~StrLess(f[j].start, f[i].start)}

\* FROM events e JOIN roommates r ON r.id = e.roommate_id, and
\* event_row_to_dict of the joined row
event_row_to_dict_seeded(e) ==
    [id |-> e.id,
     title |-> e.title,
     start |-> e.start,
     end |-> e.end,
     location |-> e.location,
     notes |-> e.notes,
     roommate |-> [id |-> e.roommate_id,
                   name |-> IF e.roommate_id \in DOMAIN SeededRoommates
                            THEN SeededRoommates[e.roommate_id].name
                            ELSE roommates[e.roommate_id].name,
                   color |-> roommates[e.roommate_id].color]]

event_row_to_dict(e) ==
    [id |-> e.id,
     title |-> e.title,
     start |-> e.start,
     end |-> e.end,
     location |-> e.location,
     notes |-> e.notes,
     roommate |-> [id |-> e.roommate_id,
                   name |-> roommates[e.roommate_id].name,
                   color |-> roommates[e.roommate_id].color]]

Joined(rows) == {e \in rows : e.roommate_id \in DOMAIN roommates}

\* SELECT ... FROM events e JOIN roommates r ... WHERE e.id=?  (one row)
ReadEvent(table, id) ==
    LET rows == {e \in Joined(table) : e.id = id}
    IN  IF rows = {} THEN <<>> ELSE <<event_row_to_dict(CHOOSE e \in rows : TRUE)>>

\* query_events(start, end): the lists it may return; a bound is <<>> (None)
\* or <<normalized string>>
query_events_unordered(start, end) ==
    LET rows == {e \in Joined(events) :
                    /\ start # <<>> => StrLess(start[1], e.end)
                    /\ end # <<>> => StrLess(e.start, end[1])}
    IN  {[i \in DOMAIN f |-> event_row_to_dict(f[i])] : f \in Orderings(rows)}

query_events(start, end) ==
    LET rows == {e \in Joined(events) :
                    /\ start # <<>> => StrLess(start[1], e.end)
                    /\ end # <<>> => StrLess(e.start, end[1])}
    IN  {[i \in DOMAIN f |-> event_row_to_dict(f[i])] : f \in OrderedByStart(rows)}

\* find_conflicts(start, end, exclude_event_id) over a table: the lists it
\* may return (no ORDER BY); exclude_event_id is <<>> (None) or <<id>>
find_conflicts_closed(table, start, end, exclude_event_id) ==
    LET rows == {e \in Joined(table) :
                    /\ ~StrLess(start, e.start)
                    /\ ~StrLess(e.end, end)
                    /\ exclude_event_id # <<>> => e.id # exclude_event_id[1]}
    IN  {[i \in DOMAIN f |-> event_row_to_dict(f[i])] : f \in Orderings(rows)}

find_conflicts_self(table, start, end, exclude_event_id) ==
    LET rows == {e \in Joined(table) :
                    /\ StrLess(e.start, start)
                    /\ StrLess(end, e.end)}
    IN  {[i \in DOMAIN f |-> event_row_to_dict(f[i])] : f \in Orderings(rows)}

find_conflicts(table, start, end, exclude_event_id) ==
    LET rows == {e \in Joined(table) :
                    /\ StrLess(e.start, start)
                    /\ StrLess(end, e.end)
                    /\ exclude_event_id # <<>> => e.id # exclude_event_id[1]}
    IN  {[i \in DOMAIN f |-> event_row_to_dict(f[i])] : f \in Orderings(rows)}

(***************************************************************************)
(* Responses.                                                              *)
(***************************************************************************)
\* jsonify(...), status: the error message, the event, the conflict list and
\* the event list of the body (those the body does not have are empty)
Response(status, error, event, conflicts, list) ==
    [status |-> status, error |-> error, event |-> event,
     conflicts |-> conflicts, list |-> list]

Error(status, error) == Response(status, error, <<>>, <<>>, <<>>)

\* an exception no handler catches
ServerError == Error(500, "Internal Server Error")

(***************************************************************************)
(* POST /api/events                                                        *)
(***************************************************************************)
\* start >= end
InvalidIntervalStrict(start, end) == StrLess(end, start)

InvalidInterval(start, end) == ~StrLess(start, end)

\* conflicts and reject_on_conflict
RejectsNever(conflicts, reject_on_conflict) == FALSE

RejectsAlways(conflicts, reject_on_conflict) == conflicts # <<>>

Rejects(conflicts, reject_on_conflict) == conflicts # <<>> /\ reject_on_conflict

\* the row create_event inserts
NewEventRaw(id, roommate_id, title, start, end, location, notes) ==
    [id |-> id, roommate_id |-> roommate_id, title |-> title,
     start |-> start, end |-> start, location |-> location, notes |-> notes]

NewEvent(id, roommate_id, title, start, end, location, notes) ==
    [id |-> id, roommate_id |-> roommate_id, title |-> title,
     start |-> start, end |-> end, location |-> location, notes |-> notes]

create_event(data) ==
    LET roommate_id == Get(data, "roommate_id")
        title == TextOr(data, "title", Interview)
        location == TextOr(data, "location", <<>>)
        notes == TextOr(data, "notes", <<>>)
        reject_on_conflict == Truthy(Get(data, "rejectOnConflict"))
    IN  \E start \in {parse_iso(Get(data, "start"))},
           end \in {parse_iso(Get(data, "end"))} :
        /\ UNCHANGED <<db_mode, roommates, nextRoommateId>>
        /\ IF ~Truthy(roommate_id)
           THEN /\ resp' = Error(400, "roommate_id is required")
                /\ UNCHANGED <<events, nextId>>
           ELSE IF ~RoommateExists(roommate_id)
           THEN /\ resp' = Error(400, "invalid roommate_id")
                /\ UNCHANGED <<events, nextId>>
           ELSE IF ~start.ok
           THEN /\ resp' = IF start.exc = "ValueError"
                           THEN Error(400, "invalid start or end ISO datetime")
                           ELSE ServerError
                /\ UNCHANGED <<events, nextId>>
           ELSE IF ~end.ok
           THEN /\ resp' = IF end.exc = "ValueError"
                           THEN Error(400, "invalid start or end ISO datetime")
                           ELSE ServerError
                /\ UNCHANGED <<events, nextId>>
           ELSE IF InvalidInterval(start.s, end.s)
           THEN /\ resp' = Error(400, "end must be after start")
                /\ UNCHANGED <<events, nextId>>
           ELSE \E conflicts \in find_conflicts(events, end.s, start.s, <<>>) :
                    IF Rejects(conflicts, reject_on_conflict)
                    THEN /\ resp' = Response(409, "conflict", <<>>, conflicts, <<>>)
                         /\ UNCHANGED <<events, nextId>>
                    ELSE /\ nextId <= MaxId
                         /\ events' = events \cup
                                {NewEvent(nextId, roommate_id.n, title, start.s,
                                          end.s, location, notes)}
                         /\ nextId' = nextId + 1
                         /\ resp' = Response(201, "", ReadEvent(events', nextId),
                                             conflicts, <<>>)

(***************************************************************************)
(* PUT /api/events/<eid>                                                   *)
(***************************************************************************)
\* the fields and args staged so far, or the response that ends the request
Staged(fields, args) == [done |-> FALSE, fields |-> fields, args |-> args]

Ended(response) == [done |-> TRUE, response |-> response]

\* if 'roommate_id' in data: g.db.execute is sqlite3's; psycopg's takes %s
\* placeholders and raises on the '?' of this statement
StageRoommate(st, data) ==
    IF st.done \/ "roommate_id" \notin DOMAIN data THEN st
    ELSE IF db_mode = "pg" THEN Ended(ServerError)
    ELSE IF ~RoommateExists(data.roommate_id)
    THEN Ended(Error(400, "invalid roommate_id"))
    ELSE Staged(Append(st.fields, "roommate_id=?"),
                Append(st.args, data.roommate_id.n))

\* if 'title' / 'location' / 'notes' in data
StageText(st, data, key, default) ==
    IF st.done \/ key \notin DOMAIN data THEN st
    ELSE Staged(Append(st.fields, key \o "=?"),
                Append(st.args, TextOr(data, key, default)))

\* if 'start' / 'end' in data
StageTime(st, data, key) ==
    IF st.done \/ key \notin DOMAIN data THEN st
    ELSE Let(parse_iso(data[key]), LAMBDA ts :
             IF ~ts.ok
             THEN Ended(IF ts.exc = "ValueError"
                        THEN Error(400, "invalid " \o key)
                        ELSE ServerError)
             ELSE Staged(Append(st.fields, key \o "=?"), Append(st.args, ts.s)))

\* the staging of every field of the body, in the handler's order
Stage(data) ==
    Let(StageRoommate(Staged(<<>>, <<>>), data), LAMBDA s1 :
    Let(StageText(s1, data, "title", Interview), LAMBDA s2 :
    Let(StageTime(s2, data, "start"), LAMBDA s3 :
    Let(StageTime(s3, data, "end"), LAMBDA s4 :
    Let(StageText(s4, data, "location", <<>>), LAMBDA s5 :
        StageText(s5, data, "notes", <<>>))))))

\* the value staged for a field, else the fallback
StagedOr(fields, args, field, fallback) ==
    IF \E i \in DOMAIN fields : fields[i] = field
    THEN args[CHOOSE i \in DOMAIN fields :
                /\ fields[i] = field
                /\ \A j \in DOMAIN fields : fields[j] = field => j <= i]
    ELSE fallback

\* new_start and new_end: the staged value, else the existing one
EffectiveStart(st, existing) ==
    StagedOr(st.fields, st.args, "start=?", existing.start)

EffectiveEndIfStaged(st, existing) ==
    StagedOr(st.fields, st.args, "end=?", <<"Z">>)

EffectiveEnd(st, existing) ==
    StagedOr(st.fields, st.args, "end=?", existing.end)

\* UPDATE events SET <fields> WHERE id=? on one row
ApplyUpdateAll(row, fields, args) ==
    [id |-> row.id,
     roommate_id |-> StagedOr(fields, args, "roommate_id=?", 1),
     title |-> StagedOr(fields, args, "title=?", Interview),
     start |-> StagedOr(fields, args, "start=?", row.start),
     end |-> StagedOr(fields, args, "end=?", row.end),
     location |-> StagedOr(fields, args, "location=?", <<>>),
     notes |-> StagedOr(fields, args, "notes=?", <<>>)]

ApplyUpdate(row, fields, args) ==
    [id |-> row.id,
     roommate_id |-> StagedOr(fields, args, "roommate_id=?", row.roommate_id),
     title |-> StagedOr(fields, args, "title=?", row.title),
     start |-> StagedOr(fields, args, "start=?", row.start),
     end |-> StagedOr(fields, args, "end=?", row.end),
     location |-> StagedOr(fields, args, "location=?", row.location),
     notes |-> StagedOr(fields, args, "notes=?", row.notes)]

update_event(eid, data) ==
    /\ UNCHANGED <<db_mode, roommates, nextRoommateId, nextId>>
    /\ IF EventById(eid) = {}
       THEN /\ resp' = Error(404, "not found")
            /\ UNCHANGED events
       ELSE \E st \in {Stage(data)}, existing \in EventById(eid) :
                IF st.done
                THEN /\ resp' = st.response
                     /\ UNCHANGED events
                ELSE IF st.fields = <<>>
                THEN /\ resp' = Error(400, "no fields to update")
                     /\ UNCHANGED events
                ELSE \E new_start \in {EffectiveStart(st, existing)},
                        new_end \in {EffectiveEnd(st, existing)} :
                         IF InvalidInterval(new_start, new_end)
                         THEN /\ resp' = Error(400, "end must be after start")
                              /\ UNCHANGED events
                         ELSE /\ events' = (events \ {existing}) \cup
                                    {ApplyUpdate(existing, st.fields, st.args)}
                              /\ \E conflicts \in
                                    find_conflicts(events', new_end, new_start, <<eid>>) :
                                    resp' = Response(200, "", ReadEvent(events', eid),
                                                     conflicts, <<>>)

(***************************************************************************)
(* DELETE /api/events/<eid>                                                *)
(***************************************************************************)
delete_event_uncommitted(eid) ==
    /\ UNCHANGED <<db_mode, roommates, nextRoommateId, nextId, events>>
    /\ resp' = IF Cardinality(EventById(eid)) = 0
               THEN Error(404, "not found")
               ELSE Response(200, "", <<>>, <<>>, <<>>)

delete_event(eid) ==
    /\ UNCHANGED <<db_mode, roommates, nextRoommateId, nextId>>
    /\ events' = events \ EventById(eid)
    /\ resp' = IF Cardinality(EventById(eid)) = 0
               THEN Error(404, "not found")
               ELSE Response(200, "", <<>>, <<>>, <<>>)

(***************************************************************************)
(* GET /api/events?start=&end=                                             *)
(***************************************************************************)
\* parse_iso(v) if v else None, for a query argument
ParseBound(v) ==
    IF ~Truthy(v) THEN [ok |-> TRUE, bound |-> <<>>]
    ELSE Let(parse_iso(v), LAMBDA ts :
             IF ts.ok THEN [ok |-> TRUE, bound |-> <<ts.s>>] ELSE ts)

list_events(args) ==
    \E start \in {ParseBound(Get(args, "start"))},
       end \in {ParseBound(Get(args, "end"))} :
        /\ UNCHANGED <<db_mode, roommates, nextRoommateId, events, nextId>>
        /\ IF ~start.ok
           THEN resp' = IF start.exc = "ValueError"
                        THEN Error(400, "invalid start or end ISO datetime")
                        ELSE ServerError
           ELSE IF ~end.ok
           THEN resp' = IF end.exc = "ValueError"
                        THEN Error(400, "invalid start or end ISO datetime")
                        ELSE ServerError
           ELSE \E list \in query_events(start.bound, end.bound) :
                    resp' = Response(200, "", <<>>, <<>>, list)

(***************************************************************************)
(* The requests the clients send.                                          *)
(***************************************************************************)
\* a JSON object with only the keys of K
Restrict(obj, K) == [k \in K \cap DOMAIN obj |-> obj[k]]

Hours == 9..MaxHour

\* a naive timestamp on day 1: without seconds, or padded and with a space
\* as the separator, or with fractional seconds
NaiveText(h) ==
    CASE h % 3 = 0 -> <<"1", "T">> \o TwoDigitChars(h)
      [] h % 3 = 1 -> <<" ", "1", " ">> \o TwoDigitChars(h) \o <<":", "0", "0", " ">>
      [] h % 3 = 2 -> <<"1", "T">> \o TwoDigitChars(h) \o <<":", "0", "0", ".", "5">>

\* 10 o'clock UTC on day 1, with the Z shorthand and with an offset
ZuluText == <<"1", "T", "1", "0", ":", "0", "0", "Z">>

OffsetText == <<"1", "T", "1", "1", "+", "0", "1">>

\* not a timestamp
BadText == <<"1", "T", "9">>

\* the first hour of the first day a datetime can hold, written with an
\* offset east: its UTC date is before that day
OverflowText == <<"1", "T", "0", "0", "+", "0", "1">>

TimeInputs ==
    {JStr(NaiveText(h)) : h \in Hours} \cup {JStr(OffsetText), JStr(BadText)}

FullCreate(rid) ==
    [roommate_id |-> JInt(rid),
     title |-> JStr(<<" ", "T">>),
     start |-> JStr(NaiveText(9)),
     end |-> JStr(NaiveText(11)),
     location |-> JStr(<<"L", " ">>),
     notes |-> JStr(<<"N">>),
     rejectOnConflict |-> JBool(TRUE)]

CreateKeys ==
    {"roommate_id", "title", "start", "end", "location", "notes", "rejectOnConflict"}

CreateBodies ==
    {[roommate_id |-> JInt(1), start |-> s, end |-> e, rejectOnConflict |-> JBool(r)] :
        s \in TimeInputs, e \in TimeInputs, r \in BOOLEAN}
    \cup {Restrict(FullCreate(rid), K) :
            rid \in {0, 2, 99},
            K \in {CreateKeys,
                   CreateKeys \ {"title", "location", "notes"},
                   CreateKeys \ {"roommate_id"},
                   CreateKeys \ {"end"},
                   CreateKeys \ {"rejectOnConflict"}}}
    \cup {[roommate_id |-> JInt(rid), start |-> JStr(OverflowText), end |-> e] :
            rid \in {1, 99}, e \in {JStr(NaiveText(11)), JStr(BadText)}}

FullUpdate(rid) ==
    [roommate_id |-> JInt(rid),
     title |-> JStr(<<"T">>),
     start |-> JStr(NaiveText(10)),
     end |-> JStr(NaiveText(11)),
     location |-> JStr(<<" ", "L">>),
     notes |-> JStr(<<"N", " ">>)]

UpdateBodies ==
    {Restrict([start |-> s, end |-> e], K) :
        s \in TimeInputs, e \in TimeInputs, K \in SUBSET {"start", "end"}}
    \cup {Restrict(FullUpdate(rid), K) :
            rid \in {2, 99},
            K \in {{"location"},
                   {"roommate_id"},
                   {"title", "location", "notes"},
                   {"roommate_id", "start"},
                   {"location", "start"},
                   {"roommate_id", "title", "start", "end", "location", "notes"}}}
    \cup {[location |-> JStr(<<"L">>), end |-> JStr(OverflowText)],
          [start |-> JStr(BadText), end |-> JStr(OverflowText)]}

\* the ids of the requests: every id ever given out and one never given out
EventIds == 1..(MaxId + 1)

\* an update of every event id ever given out, and of one never given out
UpdateRequests ==
    {[eid |-> eid, data |-> data] : eid \in 1..MaxId, data \in UpdateBodies}
    \cup {[eid |-> MaxId + 1, data |-> data] :
            data \in {Restrict(FullUpdate(2), {"location"}), Restrict(FullUpdate(99), {})}}

ListInputs == {JStr(NaiveText(10)), JStr(ZuluText), JStr(BadText)}

ListArgs ==
    {Restrict([start |-> s, end |-> e], K) :
        s \in ListInputs, e \in ListInputs, K \in SUBSET {"start", "end"}}
    \cup {[start |-> JStr(<<>>), end |-> JStr(NaiveText(10))]}

(***************************************************************************)
(* The specification: requests handled one at a time, on either backend.   *)
(* A request gets its connection (before_request) and its handler runs;    *)
(* the response leaves as the connection is closed (teardown_request).     *)
(***************************************************************************)
NoRequest == [op |-> "none"]

NoResponse == Response(0, "", <<>>, <<>>, <<>>)

\* the events table as the request in hand found it (a history variable:
\* the program does not keep it)
Snapshot(table, id) == [events |-> table, nextId |-> id]

NoSnapshot == Snapshot({}, 0)

\* the process serves requests once create_app has returned, init_db
\* included: on SQLite (on Postgres init_db raises, see Start below)
Init ==
    /\ db_mode = "sqlite"
    /\ roommates = SeededRoommates
    /\ nextRoommateId = Len(defaults) + 1
    /\ events = {}
    /\ nextId = 1
    /\ pc = "idle"
    /\ req = NoRequest
    /\ resp = NoResponse
    /\ before = NoSnapshot

\* the request r arrives and is handled to its response
before_request(r) ==
    /\ pc' = "done"
    /\ req' = r
    /\ before' = Snapshot(events, nextId)

teardown_request ==
    /\ pc = "done"
    /\ pc' = "idle"
    /\ req' = NoRequest
    /\ resp' = NoResponse
    /\ before' = NoSnapshot
    /\ UNCHANGED <<db_mode, roommates, nextRoommateId, events, nextId>>

CreateEvent ==
    /\ pc = "idle"
    /\ \E data \in CreateBodies :
        /\ before_request([op |-> "create_event", data |-> data])
        /\ create_event(data)

UpdateEvent ==
    /\ pc = "idle"
    /\ \E r \in UpdateRequests :
        /\ before_request([op |-> "update_event", eid |-> r.eid, data |-> r.data])
        /\ update_event(r.eid, r.data)

DeleteEvent ==
    /\ pc = "idle"
    /\ \E eid \in EventIds :
        /\ before_request([op |-> "delete_event", eid |-> eid])
        /\ delete_event(eid)

ListEvents ==
    /\ pc = "idle"
    /\ \E args \in ListArgs :
        /\ before_request([op |-> "list_events", args |-> args])
        /\ list_events(args)

Next == CreateEvent \/ UpdateEvent \/ DeleteEvent \/ ListEvents \/ teardown_request

Spec == Init /\ [][Next]_vars

(***************************************************************************)
(* Properties.  In a state with pc = "done", req is the request handled,   *)
(* resp its response, before.events the table it found and events the      *)
(* table it left.                                                          *)
(***************************************************************************)
Answered(op) == pc = "done" /\ req.op = op

Elems(list) == {list[i] : i \in DOMAIN list}

Ids(list) == {list[i].id : i \in DOMAIN list}

\* the rows of a table with this id
Rows(table, id) == {e \in table : e.id = id}

\* the list holds exactly the rows, each once, as the reads show them
ListsExactly(list, rows) ==
    /\ Elems(list) = {event_row_to_dict(e) : e \in rows}
    /\ Len(list) = Cardinality(rows)

\* the normalized timestamp of a key of the body
Norm(data, key) == parse_iso(Get(data, key))

\* the body names an existing roommate and carries two parsable timestamps
CreateParses(data) ==
    /\ Truthy(Get(data, "roommate_id"))
    /\ RoommateExists(Get(data, "roommate_id"))
    /\ Norm(data, "start").ok
    /\ Norm(data, "end").ok

\* the body passes the field validation of update_event
UpdateParses(data) ==
    /\ "roommate_id" \in DOMAIN data =>
            db_mode = "sqlite" /\ RoommateExists(data.roommate_id)
    /\ "start" \in DOMAIN data => Norm(data, "start").ok
    /\ "end" \in DOMAIN data => Norm(data, "end").ok
    /\ DOMAIN data \cap
        {"roommate_id", "title", "start", "end", "location", "notes"} # {}

\* the effective start or end of an update of row
Effective(row, data, key) ==
    IF key \in DOMAIN data THEN Norm(data, key).s ELSE row[key]

\* C1: the conflict check of create_event and of update_event returns exactly
\* the persisted events [s, e) with s < ce and e > cs for the candidate
\* [cs, ce), whatever their roommate; an event that ends at cs or starts at ce
\* is not returned, and an event is returned iff the candidate overlaps it
\* in turn.
C1_ConflictCheck ==
    /\ (Answered("create_event") /\ resp.status \in {201, 409}) =>
        \A cs \in {Norm(req.data, "start").s}, ce \in {Norm(req.data, "end").s} :
            /\ ListsExactly(resp.conflicts,
                    {e \in before.events : StrLess(e.start, ce) /\ StrLess(cs, e.end)})
            /\ \A e \in before.events :
                /\ (e.end = cs \/ e.start = ce) => e.id \notin Ids(resp.conflicts)
                /\ e.id \in Ids(resp.conflicts) <=>
                        (StrLess(cs, e.end) /\ StrLess(e.start, ce))
    /\ (Answered("update_event") /\ resp.status = 200) =>
        \A row \in Rows(before.events, req.eid) :
        \A cs \in {Effective(row, req.data, "start")},
           ce \in {Effective(row, req.data, "end")} :
            /\ ListsExactly(resp.conflicts,
                    {e \in events :
                        e.id # row.id /\ StrLess(e.start, ce) /\ StrLess(cs, e.end)})
            /\ \A e \in events :
                (e.id # row.id /\ (e.end = cs \/ e.start = ce)) =>
                    e.id \notin Ids(resp.conflicts)

\* a create is rejected with one conflict, of another roommate, while an
\* event that ends exactly when the new one starts is not in the list
C1_Witness ==
    /\ Answered("create_event")
    /\ resp.status = 409
    /\ Len(resp.conflicts) = 1
    /\ resp.conflicts[1].roommate.id # req.data.roommate_id.n
    /\ \E e \in events : e.end = Norm(req.data, "start").s

\* C2: every persisted event has start < end.
C2_StartBeforeEnd == \A e \in events : StrLess(e.start, e.end)

\* an update of one bound only has been persisted next to another event
C2_Witness ==
    /\ Answered("update_event")
    /\ resp.status = 200
    /\ Cardinality(DOMAIN req.data \cap {"start", "end"}) = 1
    /\ Cardinality(events) = 2

\* the body passes the validation of create_event and its interval overlaps
\* these rows of the table it found
CreateValid(data) ==
    /\ CreateParses(data)
    /\ StrLess(Norm(data, "start").s, Norm(data, "end").s)

CreateOverlap(data) ==
    LET cs == Norm(data, "start").s
        ce == Norm(data, "end").s
    IN  {e \in before.events : StrLess(e.start, ce) /\ StrLess(cs, e.end)}

\* C3: a valid create with rejectOnConflict true whose interval overlaps a
\* persisted event is answered 409 with the overlapping events, and inserts
\* nothing.
C3_RejectOnConflict ==
    (/\ Answered("create_event")
     /\ CreateValid(req.data)
     /\ Truthy(Get(req.data, "rejectOnConflict"))
     /\ CreateOverlap(req.data) # {}) =>
        /\ resp.status = 409
        /\ resp.error = "conflict"
        /\ ListsExactly(resp.conflicts, CreateOverlap(req.data))
        /\ events = before.events
        /\ nextId = before.nextId

\* a create with rejectOnConflict was answered 409 with two conflicts
C3_Witness ==
    /\ Answered("create_event")
    /\ Truthy(Get(req.data, "rejectOnConflict"))
    /\ resp.status = 409
    /\ Len(resp.conflicts) = 2

\* C4: a valid create without rejectOnConflict, or that overlaps nothing, is
\* answered 201: one event with the normalized start and end is added under a
\* new id, the others stay, and the conflict list is the overlapping events
\* of the table before the insert.
C4_CreateSucceeds ==
    (/\ Answered("create_event")
     /\ CreateValid(req.data)
     /\ \/ ~Truthy(Get(req.data, "rejectOnConflict"))
        \/ CreateOverlap(req.data) = {}) =>
        /\ resp.status = 201
        /\ before.events \subseteq events
        /\ Cardinality(events \ before.events) = 1
        /\ \A new \in events \ before.events :
            /\ new.id \notin {e.id : e \in before.events}
            /\ new.start = Norm(req.data, "start").s
            /\ new.end = Norm(req.data, "end").s
            /\ new.roommate_id = req.data.roommate_id.n
            /\ resp.event = <<event_row_to_dict(new)>>
            /\ new.id \notin Ids(resp.conflicts)
        /\ ListsExactly(resp.conflicts, CreateOverlap(req.data))

\* a create without rejectOnConflict was persisted although it overlaps
C4_Witness ==
    /\ Answered("create_event")
    /\ ~Truthy(Get(req.data, "rejectOnConflict"))
    /\ resp.status = 201
    /\ Len(resp.conflicts) = 1
    /\ Cardinality(events) = 2

\* C5: a create with an existing roommate and parsable timestamps whose
\* normalized start >= end is answered 400 "end must be after start" and
\* inserts nothing, whatever rejectOnConflict and the table are.
C5_InvalidInterval ==
    (/\ Answered("create_event")
     /\ CreateParses(req.data)
     /\ ~StrLess(Norm(req.data, "start").s, Norm(req.data, "end").s)) =>
        /\ resp.status = 400
        /\ resp.error = "end must be after start"
        /\ events = before.events
        /\ nextId = before.nextId

\* a create with start = end and rejectOnConflict was refused while the
\* table holds an event
C5_Witness ==
    /\ Answered("create_event")
    /\ CreateParses(req.data)
    /\ Norm(req.data, "start").s = Norm(req.data, "end").s
    /\ Truthy(Get(req.data, "rejectOnConflict"))
    /\ resp.error = "end must be after start"
    /\ events # {}

\* the columns of an event a request can set
EventFields == {"roommate_id", "title", "start", "end", "location", "notes"}

\* the value update_event stores for a key of the body
StoredValue(data, key) ==
    CASE key = "roommate_id" -> data.roommate_id.n
      [] key = "title" -> TextOr(data, "title", Interview)
      [] key = "start" -> Norm(data, "start").s
      [] key = "end" -> Norm(data, "end").s
      [] key = "location" -> TextOr(data, "location", <<>>)
      [] key = "notes" -> TextOr(data, "notes", <<>>)

\* C6: an update of an existing event that passes the field validation and
\* whose effective start (the staged one if supplied, else the persisted one)
\* is >= its effective end is answered 400 "end must be after start", and no
\* field of any event changes.
C6_EffectiveInterval ==
    Answered("update_event") =>
        \A row \in Rows(before.events, req.eid) :
            (/\ UpdateParses(req.data)
             /\ ~StrLess(Effective(row, req.data, "start"),
                         Effective(row, req.data, "end"))) =>
                /\ resp.status = 400
                /\ resp.error = "end must be after start"
                /\ events = before.events

\* an update that supplies a location and one bound only was refused for its
\* interval
C6_Witness ==
    /\ Answered("update_event")
    /\ resp.error = "end must be after start"
    /\ Cardinality(DOMAIN req.data \cap {"start", "end"}) = 1
    /\ "location" \in DOMAIN req.data

\* C7: an update answered 200 leaves every field its body does not supply as
\* it was, and leaves every other event as it was.
C7_PartialUpdateFrame ==
    (Answered("update_event") /\ resp.status = 200) =>
        \A row \in Rows(before.events, req.eid) :
            \E new \in events :
                /\ new.id = row.id
                /\ \A f \in EventFields \ DOMAIN req.data : new[f] = row[f]
                /\ events \ {new} = before.events \ {row}

\* a location-only update of an event of roommate 2 with a title of its own
\* succeeded next to another event
C7_Witness ==
    /\ Answered("update_event")
    /\ resp.status = 200
    /\ DOMAIN req.data = {"location"}
    /\ Cardinality(events) = 2
    /\ \E e \in events :
        /\ e.id = req.eid
        /\ e.roommate_id = 2
        /\ e.title # Interview
        /\ e.location = <<"L">>

\* C8: an update of an existing event that passes the validation is answered
\* 200 even when its interval overlaps other events: every supplied field is
\* stored, and the conflict list is exactly the other events that overlap the
\* effective interval, never the event itself.
C8_UpdateConflicts ==
    Answered("update_event") =>
        \A row \in Rows(before.events, req.eid) :
        UpdateParses(req.data) =>
        \A cs \in {Effective(row, req.data, "start")},
           ce \in {Effective(row, req.data, "end")} :
            StrLess(cs, ce) =>
                /\ resp.status = 200
                /\ \E new \in events :
                    /\ new.id = row.id
                    /\ \A f \in EventFields \cap DOMAIN req.data :
                            new[f] = StoredValue(req.data, f)
                    /\ resp.event = <<event_row_to_dict(new)>>
                /\ ListsExactly(resp.conflicts,
                        {e \in events :
                            /\ e.id # row.id
                            /\ StrLess(e.start, ce)
                            /\ StrLess(cs, e.end)})
                /\ row.id \notin Ids(resp.conflicts)

\* an update that supplies neither start nor end succeeded and reports a
\* conflict
C8_Witness ==
    /\ Answered("update_event")
    /\ resp.status = 200
    /\ DOMAIN req.data \cap {"start", "end"} = {}
    /\ Len(resp.conflicts) = 1
    /\ resp.conflicts[1].id # req.eid

\* C9: a delete of an id no event has is answered 404 and changes nothing;
\* otherwise it is answered 200 and removes exactly that event; no request
\* gives an event an id that was given out before, so that a second delete of
\* the id is answered 404.
C9_Delete ==
    /\ Answered("delete_event") =>
        IF Rows(before.events, req.eid) = {}
        THEN /\ resp.status = 404
             /\ resp.error = "not found"
             /\ events = before.events
        ELSE /\ resp.status = 200
             /\ Cardinality(Rows(before.events, req.eid)) = 1
             /\ events = before.events \ Rows(before.events, req.eid)
             /\ Rows(events, req.eid) = {}
    /\ pc = "done" =>
        /\ before.nextId <= nextId
        /\ \A e \in before.events : e.id < before.nextId
        /\ \A e \in events \ before.events :
            e.id >= before.nextId \/ Rows(before.events, e.id) # {}

\* a delete of an id that was given out and is gone was answered 404 while
\* another event is still there
C9_Witness ==
    /\ Answered("delete_event")
    /\ resp.status = 404
    /\ req.eid < nextId
    /\ events # {}

\* the query argument is absent (or empty)
NoBound(args, key) == ~Truthy(Get(args, key))

\* C10: a listing whose bounds are absent or parsable is answered 200 with
\* exactly the events [s, e) with (start absent or e > start) and (end absent
\* or s < end), ordered by start ascending; with no bound, with every event.
C10_ListRange ==
    (/\ Answered("list_events")
     /\ NoBound(req.args, "start") \/ Norm(req.args, "start").ok
     /\ NoBound(req.args, "end") \/ Norm(req.args, "end").ok) =>
        /\ resp.status = 200
        /\ ListsExactly(resp.list,
                {e \in events :
                    /\ NoBound(req.args, "start") \/
                            StrLess(Norm(req.args, "start").s, e.end)
                    /\ NoBound(req.args, "end") \/
                            StrLess(e.start, Norm(req.args, "end").s)})
        /\ \A i, j \in DOMAIN resp.list :
                i < j => ~StrLess(resp.list[j].start, resp.list[i].start)
        /\ (NoBound(req.args, "start") /\ NoBound(req.args, "end")) =>
                Ids(resp.list) = {e.id : e \in events}

\* a listing with a lower bound returned two events by start, the later
\* inserted one first
C10_Witness ==
    /\ Answered("list_events")
    /\ resp.status = 200
    /\ ~NoBound(req.args, "start")
    /\ Len(resp.list) = 2
    /\ resp.list[1].id > resp.list[2].id
    /\ StrLess(resp.list[1].start, resp.list[2].start)

\* C11: the conflict list of every create and update response is ordered by
\* the events' start, ascending.
C11_ConflictsOrdered ==
    (pc = "done" /\ req.op \in {"create_event", "update_event"}) =>
        \A i, j \in DOMAIN resp.conflicts :
            i < j => ~StrLess(resp.conflicts[j].start, resp.conflicts[i].start)

(***************************************************************************)
(* Concurrent creates.  The server handles requests in threads (or worker  *)
(* processes), each on a connection of its own: in this specification pc,  *)
(* req, resp and before hold one value per worker.  create_event reads the *)
(* table for its conflict check and writes it with a later statement, and  *)
(* holds no lock in between; a step of a worker is the part of the handler *)
(* up to the next statement that writes.                                   *)
(***************************************************************************)
Workers == {1, 2}

\* events ever inserted by the concurrent creates
RaceMaxId == 2

\* create_event up to the INSERT: the responses that end it there, or the
\* conflict list it goes on with
create_event_check(data) ==
    LET roommate_id == Get(data, "roommate_id")
        reject_on_conflict == Truthy(Get(data, "rejectOnConflict"))
        start == parse_iso(Get(data, "start"))
        end == parse_iso(Get(data, "end"))
    IN  IF ~Truthy(roommate_id)
        THEN {Ended(Error(400, "roommate_id is required"))}
        ELSE IF ~RoommateExists(roommate_id)
        THEN {Ended(Error(400, "invalid roommate_id"))}
        ELSE IF ~start.ok
        THEN {Ended(IF start.exc = "ValueError"
                    THEN Error(400, "invalid start or end ISO datetime")
                    ELSE ServerError)}
        ELSE IF ~end.ok
        THEN {Ended(IF end.exc = "ValueError"
                    THEN Error(400, "invalid start or end ISO datetime")
                    ELSE ServerError)}
        ELSE IF InvalidInterval(start.s, end.s)
        THEN {Ended(Error(400, "end must be after start"))}
        ELSE {IF Rejects(conflicts, reject_on_conflict)
              THEN Ended(Response(409, "conflict", <<>>, conflicts, <<>>))
              ELSE [done |-> FALSE, conflicts |-> conflicts] :
                conflicts \in find_conflicts(events, end.s, start.s, <<>>)}

\* the worker w takes a create request and runs it up to the INSERT
create_event_begin(w, data) ==
    /\ pc[w] = "idle"
    /\ req' = [req EXCEPT ![w] = [op |-> "create_event", data |-> data]]
    /\ before' = [before EXCEPT ![w] = Snapshot(events, nextId)]
    /\ \E out \in create_event_check(data) :
        IF out.done
        THEN /\ pc' = [pc EXCEPT ![w] = "done"]
             /\ resp' = [resp EXCEPT ![w] = out.response]
        ELSE /\ pc' = [pc EXCEPT ![w] = "checked"]
             /\ resp' = [resp EXCEPT ![w] =
                            Response(0, "", <<>>, out.conflicts, <<>>)]
    /\ UNCHANGED <<db_mode, roommates, nextRoommateId, events, nextId>>

\* a create that checks for conflicts again in the transaction of its INSERT
create_event_insert_rechecked(w) ==
    /\ pc[w] = "checked"
    /\ nextId <= RaceMaxId
    /\ pc' = [pc EXCEPT ![w] = "done"]
    /\ \E data \in {req[w].data} :
       \E start \in {parse_iso(Get(data, "start")).s},
          end \in {parse_iso(Get(data, "end")).s} :
       \E conflicts \in find_conflicts(events, end, start, <<>>) :
         IF Rejects(conflicts, Truthy(Get(data, "rejectOnConflict")))
         THEN /\ resp' = [resp EXCEPT ![w] =
                            Response(409, "conflict", <<>>, conflicts, <<>>)]
              /\ UNCHANGED <<events, nextId>>
         ELSE /\ events' = events \cup
                    {NewEvent(nextId, data.roommate_id.n,
                              TextOr(data, "title", Interview), start, end,
                              TextOr(data, "location", <<>>),
                              TextOr(data, "notes", <<>>))}
              /\ nextId' = nextId + 1
              /\ resp' = [resp EXCEPT ![w] =
                            Response(201, "", ReadEvent(events', nextId),
                                     conflicts, <<>>)]
    /\ UNCHANGED <<db_mode, roommates, nextRoommateId, req, before>>

\* the rest of create_event: INSERT, commit, read the row back, answer 201
\* with the conflicts found before
create_event_insert(w) ==
    /\ pc[w] = "checked"
    /\ nextId <= RaceMaxId
    /\ pc' = [pc EXCEPT ![w] = "done"]
    /\ \E data \in {req[w].data} :
        /\ events' = events \cup
                {NewEvent(nextId, data.roommate_id.n,
                          TextOr(data, "title", Interview),
                          parse_iso(Get(data, "start")).s,
                          parse_iso(Get(data, "end")).s,
                          TextOr(data, "location", <<>>),
                          TextOr(data, "notes", <<>>))}
        /\ nextId' = nextId + 1
        /\ resp' = [resp EXCEPT ![w] =
                        Response(201, "", ReadEvent(events', nextId),
                                 resp[w].conflicts, <<>>)]
    /\ UNCHANGED <<db_mode, roommates, nextRoommateId, req, before>>

\* the response of the worker w leaves and its connection is closed
worker_teardown(w) ==
    /\ pc[w] = "done"
    /\ pc' = [pc EXCEPT ![w] = "idle"]
    /\ req' = [req EXCEPT ![w] = NoRequest]
    /\ resp' = [resp EXCEPT ![w] = NoResponse]
    /\ before' = [before EXCEPT ![w] = NoSnapshot]
    /\ UNCHANGED <<db_mode, roommates, nextRoommateId, events, nextId>>

\* the creates the concurrent clients send: three intervals of day 1, two of
\* them touching and the third overlapping both, with and without
\* rejectOnConflict
RaceBodies ==
    {[roommate_id |-> JInt(IF e - s = 2 THEN 2 ELSE 1),
      start |-> JStr(NaiveText(s)), end |-> JStr(NaiveText(e)),
      rejectOnConflict |-> JBool(r)] :
        s \in {9, 10}, e \in {10, 11}, r \in BOOLEAN}

RaceInit ==
    /\ db_mode = "sqlite"
    /\ roommates = SeededRoommates
    /\ nextRoommateId = Len(defaults) + 1
    /\ events = {}
    /\ nextId = 1
    /\ pc = [w \in Workers |-> "idle"]
    /\ req = [w \in Workers |-> NoRequest]
    /\ resp = [w \in Workers |-> NoResponse]
    /\ before = [w \in Workers |-> NoSnapshot]

RaceBegin == \E w \in Workers : \E data \in RaceBodies : create_event_begin(w, data)

RaceInsert == \E w \in Workers : create_event_insert(w)

RaceTeardown == \E w \in Workers : worker_teardown(w)

RaceNext == RaceBegin \/ RaceInsert \/ RaceTeardown

SpecRace == RaceInit /\ [][RaceNext]_vars

\* the rows of a table that overlap the interval of a create body
OverlapIn(table, data) ==
    LET cs == Norm(data, "start").s
        ce == Norm(data, "end").s
    IN  {e \in table : StrLess(e.start, ce) /\ StrLess(cs, e.end)}

\* the row a worker's create has inserted
InsertedBy(w) == {e \in events : resp[w].event # <<>> /\ e.id = resp[w].event[1].id}

\* C12: a create decides on the table as its conflict check found it and
\* holds nothing until its insert: a valid create whose check found no
\* overlapping event (or that does not reject on conflict) is answered 201
\* and inserts its event, with the conflicts of that earlier table, whatever
\* has been committed since; so two concurrent creates of overlapping
\* intervals with rejectOnConflict both succeed, neither reporting the other.
C12_CheckThenAct ==
    \A w \in Workers :
        (/\ pc[w] = "done"
         /\ CreateValid(req[w].data)
         /\ \/ ~Truthy(Get(req[w].data, "rejectOnConflict"))
            \/ OverlapIn(before[w].events, req[w].data) = {}) =>
            /\ resp[w].status = 201
            /\ ListsExactly(resp[w].conflicts,
                            OverlapIn(before[w].events, req[w].data))
            /\ Cardinality(InsertedBy(w)) = 1
            /\ \A e \in InsertedBy(w) :
                /\ e.start = Norm(req[w].data, "start").s
                /\ e.end = Norm(req[w].data, "end").s

\* both workers have created with rejectOnConflict, both were answered 201
\* with no conflict, and their two events overlap
C12_Witness ==
    /\ \A w \in Workers :
        /\ pc[w] = "done"
        /\ Truthy(Get(req[w].data, "rejectOnConflict"))
        /\ resp[w].status = 201
        /\ resp[w].conflicts = <<>>
    /\ \E a \in InsertedBy(1), b \in InsertedBy(2) :
        /\ a # b
        /\ StrLess(a.start, b.end)
        /\ StrLess(b.start, a.end)

(***************************************************************************)
(* The normalizer on its own: parse_iso applied to two timestamps, and     *)
(* then again to what it returned.  Here req holds the two inputs and resp *)
(* the results.                                                            *)
(***************************************************************************)
\* the timestamps given to parse_iso: two days, the first and last hours of
\* a day and one in between, with and without seconds and a fraction, naive,
\* with the Z shorthand and with offsets east and west; some with a space as
\* the separator and spaces around; and texts that are no timestamps
ParseTexts ==
    {<<DigitChar(d), "T">> \o TwoDigitChars(h) \o s \o z :
        d \in {1, 2},
        h \in {0, 9, 23},
        s \in {<<>>, <<":", "0", "0">>, <<":", "3", "0">>, <<":", "3", "0", ".", "5">>},
        z \in {<<>>, <<"Z">>, <<"+", "0", "1">>, <<"-", "0", "2">>, <<"+", "2", "3">>}}
    \cup {<<" ", "1", " ", "0", "9", ":", "3", "0", "Z", " ">>,
          <<"2", " ", "0", "9", "-", "0", "2">>,
          <<>>, <<" ">>, BadText, <<"1", "T", "2", "4">>, <<"1", "T", "0", "9", "Z", "Z">>}

ParseInit ==
    /\ db_mode = "sqlite"
    /\ roommates = SeededRoommates
    /\ nextRoommateId = Len(defaults) + 1
    /\ events = {}
    /\ nextId = 1
    /\ before = NoSnapshot
    /\ pc = "idle"
    /\ req \in {[x |-> JStr(a), y |-> JStr(b)] : a, b \in ParseTexts}
    /\ resp = NoResponse

\* parse_iso of the two inputs
ParseOnce ==
    /\ pc = "idle"
    /\ pc' = "parsed"
    /\ resp' = [x |-> parse_iso(req.x), y |-> parse_iso(req.y)]
    /\ UNCHANGED <<db_mode, roommates, nextRoommateId, events, nextId, before, req>>

\* parse_iso of the normalized strings, when both inputs were accepted
ParseAgain ==
    /\ pc = "parsed"
    /\ resp.x.ok /\ resp.y.ok
    /\ pc' = "reparsed"
    /\ resp' = [x |-> parse_iso(JStr(resp.x.s)), y |-> parse_iso(JStr(resp.y.s))]
    /\ UNCHANGED <<db_mode, roommates, nextRoommateId, events, nextId, before, req>>

ParseNext == ParseOnce \/ ParseAgain

SpecParse == ParseInit /\ [][ParseNext]_vars

\* C13: normalization is idempotent: what parse_iso returns for an input it
\* accepts is accepted by parse_iso and normalizes to itself.
C13_Idempotent ==
    pc = "reparsed" =>
        /\ resp.x = parse_iso(req.x)
        /\ resp.y = parse_iso(req.y)

\* an input with an offset, a fraction and a space as the separator, and a
\* naive one without seconds, have been normalized twice
C13_Witness ==
    /\ pc = "reparsed"
    /\ req.x.s = <<" ", "1", " ", "0", "9", ":", "3", "0", "Z", " ">>
    /\ req.y.s = <<"2", "T", "0", "9">>
    /\ resp.x.ok /\ resp.y.ok
    /\ resp.x.s # req.x.s
    /\ resp.y.s # req.y.s

\* the input carries an offset or the Z shorthand
Aware(ts) == HasZone(ExpandZ(ReplaceSpace(Strip(ts.s))))

\* the instant an aware input denotes, in whole seconds: its day, hour and
\* second fields less its offset
Instant(ts) ==
    LET s == ExpandZ(ReplaceSpace(Strip(ts.s)))
        b == BodyPart(s)
        z == ZonePart(s)
        offset == (IF z[1] = "-" THEN -1 ELSE 1) * TwoDigitVal(z, 2)
    IN  (DigitVal(b[1]) * 24 + TwoDigitVal(b, 3) - offset) * 60
        + (IF Len(b) >= 7 THEN TwoDigitVal(b, 6) ELSE 0)

\* C14: for two accepted inputs that carry an offset (or Z), the normalized
\* strings compare as the instants do; inputs of the same instant normalize
\* to the same string, which ends in Z.
C14_ChronologicalOrder ==
    (/\ pc = "parsed"
     /\ resp.x.ok /\ resp.y.ok
     /\ Aware(req.x) /\ Aware(req.y)) =>
        /\ StrLess(resp.x.s, resp.y.s) <=> Instant(req.x) < Instant(req.y)
        /\ Instant(req.x) = Instant(req.y) => resp.x.s = resp.y.s
        /\ resp.x.s[Len(resp.x.s)] = "Z"

\* two inputs of the same instant, one written with an offset of 23 hours
\* east and the other with Z and a fraction, were normalized to one string
C14_Witness ==
    /\ pc = "parsed"
    /\ resp.x.ok /\ resp.y.ok
    /\ req.x.s = <<"2", "T", "2", "3", ":", "3", "0", "+", "2", "3">>
    /\ req.y.s = <<"2", "T", "0", "0", ":", "3", "0", ".", "5", "Z">>
    /\ resp.x.s = resp.y.s
    /\ resp.x.s = <<"2", "T", "0", "0", ":", "3", "0", "Z">>

(***************************************************************************)
(* The roster: init_db, POST /api/roommates and PUT /api/roommates/<rid>,  *)
(* next to the event requests.  The database starts with no table; the     *)
(* process is started, and restarted between requests.  Here before also   *)
(* holds the roommates table as the request in hand found it.              *)
(***************************************************************************)
\* roommates added on top of the seeded ones (ids are never reused)
MaxAdds == 1

\* the default color of add_roommate
DefaultColor == <<"#", "3", "7", "7", "8", "C", "2">>

\* jsonify(dict(row)) of a row of roommates, or an error
RoommateResponse(status, error, rows) ==
    [status |-> status, error |-> error, roommate |-> rows]

\* the row of roommates with this id, as the response shows it
RoommateRow(table, id) ==
    [id |-> id, name |-> table[id].name, color |-> table[id].color]

\* the UNIQUE constraint of roommates.name: another row has the name
NameNeverTaken(name, rid) == FALSE

NameTaken(name, rid) ==
    \E id \in DOMAIN roommates : id # rid /\ roommates[id].name = name

\* the table with the row of this id set
PutRoommate(table, rid, row) ==
    [id \in DOMAIN table \cup {rid} |-> IF id = rid THEN row ELSE table[id]]

\* the rows init_db inserts, under the next ids of the sequence
Seed(first) ==
    [id \in first..(first + Len(defaults) - 1) |->
        [name |-> defaults[id - first + 1][1],
         color |-> defaults[id - first + 1][2]]]

\* an exception that ends the start of the process
Raised(exc) == Response(0, exc, <<>>, <<>>, <<>>)

\* init_db: CREATE TABLE IF NOT EXISTS, and the roster if roommates is
\* empty.  The Postgres connection returns its rows as dicts (dict_row), so
\* cur.fetchone()[0] of the row count raises KeyError and the connection is
\* closed with nothing committed.
init_db ==
    /\ IF db_mode = "pg"
       THEN /\ resp' = Raised("KeyError")
            /\ UNCHANGED <<roommates, nextRoommateId>>
       ELSE /\ resp' = NoResponse
            /\ roommates' =
                IF DOMAIN roommates = {} THEN Seed(nextRoommateId) ELSE roommates
            /\ nextRoommateId' =
                IF DOMAIN roommates = {} THEN nextRoommateId + Len(defaults)
                ELSE nextRoommateId
    /\ UNCHANGED <<db_mode, events, nextId>>

\* add_roommate: the name and color trimmed, the INSERT, the row read back
add_roommate(data) ==
    LET name == TextOr(data, "name", <<>>)
        color == TextOr(data, "color", DefaultColor)
    IN  /\ UNCHANGED <<db_mode, events, nextId>>
        /\ IF name = <<>>
           THEN /\ resp' = RoommateResponse(400, "name is required", <<>>)
                /\ UNCHANGED <<roommates, nextRoommateId>>
           ELSE /\ nextRoommateId <= Len(defaults) + MaxAdds
                /\ IF NameTaken(name, 0)
                   THEN \* the INSERT fails on the UNIQUE constraint; a
                        \* SERIAL has given its value out by then
                        /\ resp' = RoommateResponse(
                                    409, "Roommate name must be unique", <<>>)
                        /\ nextRoommateId' =
                            IF db_mode = "pg" THEN nextRoommateId + 1
                            ELSE nextRoommateId
                        /\ UNCHANGED roommates
                   ELSE /\ roommates' =
                            PutRoommate(roommates, nextRoommateId,
                                        [name |-> name, color |-> color])
                        /\ nextRoommateId' = nextRoommateId + 1
                        /\ resp' = RoommateResponse(
                                    201, "",
                                    <<RoommateRow(roommates', nextRoommateId)>>)

\* the name step of update_roommate: the table after it, or the response
\* that ends the request
RenameStep(rid, name) ==
    IF name.t = "null" THEN [done |-> FALSE, table |-> roommates]
    ELSE IF Strip(name.s) = <<>>
    THEN Ended(RoommateResponse(400, "name cannot be empty", <<>>))
    ELSE IF NameTaken(Strip(name.s), rid)
    THEN Ended(RoommateResponse(409, "Roommate name must be unique", <<>>))
    ELSE [done |-> FALSE,
          table |-> PutRoommate(roommates, rid,
                        [name |-> Strip(name.s), color |-> roommates[rid].color])]

\* update_roommate: the name, committed, and then the color
update_roommate(rid, data) ==
    /\ UNCHANGED <<db_mode, nextRoommateId, events, nextId>>
    /\ IF rid \notin DOMAIN roommates
       THEN /\ resp' = RoommateResponse(404, "not found", <<>>)
            /\ UNCHANGED roommates
       ELSE \E st \in {RenameStep(rid, Get(data, "name"))},
               color \in {Get(data, "color")} :
            IF st.done
            THEN /\ resp' = st.response
                 /\ UNCHANGED roommates
            ELSE IF color.t = "null"
            THEN /\ roommates' = st.table
                 /\ resp' = RoommateResponse(200, "", <<RoommateRow(st.table, rid)>>)
            ELSE IF Strip(color.s) = <<>>
            THEN /\ roommates' = st.table
                 /\ resp' = RoommateResponse(400, "color cannot be empty", <<>>)
            ELSE /\ roommates' =
                    PutRoommate(st.table, rid,
                        [name |-> st.table[rid].name, color |-> Strip(color.s)])
                 /\ resp' = RoommateResponse(
                                200, "", <<RoommateRow(roommates', rid)>>)

\* the names and colors the roster requests carry: a new name with spaces
\* around, the names of the first two seeded roommates, a blank, null
Ann == <<"A", "n", "n">>

RosterNames ==
    {JStr(<<" ">> \o Ann \o <<" ">>), JStr(defaults[1][1]),
     JStr(defaults[2][1] \o <<" ">>), JStr(<<" ">>), JNull}

RosterColors == {JStr(<<"#", "1", " ">>), JStr(<<" ">>), JNull}

RosterBodies ==
    {Restrict([name |-> n, color |-> c], K) :
        n \in RosterNames, c \in RosterColors, K \in SUBSET {"name", "color"}}

\* the ids of the roommate updates: two seeded, the first added, an unknown
RoommateIds == {1, 2, Len(defaults) + 1, 99}

\* the event requests sent next to them: creates for a seeded, an added and
\* an unknown roommate, updates that move an event to another roommate or
\* set its location, deletes, and listings
RosterCreateBodies ==
    {[roommate_id |-> JInt(rid), start |-> JStr(NaiveText(9)),
      end |-> JStr(NaiveText(11))] :
        rid \in {1, Len(defaults) + 1, 99}}

RosterUpdateBodies ==
    {[roommate_id |-> JInt(rid)] : rid \in {2, Len(defaults) + 1, 99}}
    \cup {[location |-> JStr(<<"L">>)]}

RosterListArgs == {Restrict([start |-> JStr(NaiveText(10))], K) : K \in SUBSET {"start"}}

\* the tables as the request in hand found them
RosterSnapshot == [events |-> events, nextId |-> nextId, roommates |-> roommates]

RosterInit ==
    /\ db_mode \in {"sqlite", "pg"}
    /\ roommates = <<>>
    /\ nextRoommateId = 1
    /\ events = {}
    /\ nextId = 1
    /\ pc = "down"
    /\ req = NoRequest
    /\ resp = NoResponse
    /\ before = NoSnapshot

\* the request r arrives at the running process and is handled
roster_request(r) ==
    /\ pc = "idle"
    /\ pc' = "done"
    /\ req' = r
    /\ before' = RosterSnapshot

\* the process is started, or restarted between two requests: create_app
\* runs init_db, and the process serves only if it returns
Start ==
    /\ pc \in {"down", "crashed", "idle"}
    /\ req' = [op |-> "init_db"]
    /\ before' = RosterSnapshot
    /\ init_db
    /\ pc' = IF resp' = NoResponse THEN "done" ELSE "crashed"

AddRoommate ==
    \E data \in RosterBodies :
        /\ roster_request([op |-> "add_roommate", data |-> data])
        /\ add_roommate(data)

UpdateRoommate ==
    \E rid \in RoommateIds, data \in RosterBodies :
        /\ roster_request([op |-> "update_roommate", rid |-> rid, data |-> data])
        /\ update_roommate(rid, data)

RosterCreateEvent ==
    \E data \in RosterCreateBodies :
        /\ roster_request([op |-> "create_event", data |-> data])
        /\ create_event(data)

RosterUpdateEvent ==
    \E eid \in 1..MaxId, data \in RosterUpdateBodies :
        /\ roster_request([op |-> "update_event", eid |-> eid, data |-> data])
        /\ update_event(eid, data)

RosterDeleteEvent ==
    \E eid \in 1..MaxId :
        /\ roster_request([op |-> "delete_event", eid |-> eid])
        /\ delete_event(eid)

RosterListEvents ==
    \E args \in RosterListArgs :
        /\ roster_request([op |-> "list_events", args |-> args])
        /\ list_events(args)

RosterNext ==
    \/ Start
    \/ AddRoommate
    \/ UpdateRoommate
    \/ RosterCreateEvent
    \/ RosterUpdateEvent
    \/ RosterDeleteEvent
    \/ RosterListEvents
    \/ teardown_request

SpecRoster == RosterInit /\ [][RosterNext]_vars

\* C15: init_db on an empty roommates table inserts exactly the 11 entries
\* of the roster; init_db on a table with rows changes nothing, so that no
\* start after roommates were added or renamed duplicates or restores a
\* seeded entry.
C15_Seeding ==
    (pc \in {"done", "crashed"} /\ req.op = "init_db") =>
        /\ IF DOMAIN before.roommates = {}
           THEN /\ DOMAIN roommates = 1..11
                /\ \A id \in 1..11 :
                    /\ roommates[id].name = defaults[id][1]
                    /\ roommates[id].color = defaults[id][2]
           ELSE roommates = before.roommates
        /\ events = before.events

\* the rows of a roommates table that have this name, other than rid
Namesakes(table, name, rid) ==
    {id \in DOMAIN table : id # rid /\ table[id].name = name}

\* C16: no two roommates have the same name; an add, or a rename of an
\* existing roommate, whose trimmed name is the name of another roommate is
\* answered 409 and changes no roommate.
C16_UniqueNames ==
    /\ \A a, b \in DOMAIN roommates :
        a # b => roommates[a].name # roommates[b].name
    /\ Answered("add_roommate") =>
        \A name \in {TextOr(req.data, "name", <<>>)} :
            (name # <<>> /\ Namesakes(before.roommates, name, 0) # {}) =>
                /\ resp.status = 409
                /\ roommates = before.roommates
    /\ (/\ Answered("update_roommate")
        /\ req.rid \in DOMAIN before.roommates
        /\ Get(req.data, "name") # JNull) =>
        \A name \in {Strip(req.data.name.s)} :
            (name # <<>> /\ Namesakes(before.roommates, name, req.rid) # {}) =>
                /\ resp.status = 409
                /\ roommates = before.roommates

\* the first roommate was to be renamed, and recolored, to the name of the
\* second written with a space after it, and the request was refused
C16_Witness ==
    /\ Answered("update_roommate")
    /\ req.rid = 1
    /\ DOMAIN req.data = {"name", "color"}
    /\ Truthy(req.data.color)
    /\ req.data.name = JStr(defaults[2][1] \o <<" ">>)
    /\ resp.status = 409
    /\ roommates[2].name = defaults[2][1]

\* the events a response shows: its list, its conflicts and its event
Shown(response) ==
    Elems(response.list) \cup Elems(response.conflicts) \cup Elems(response.event)

\* C17: every event shown by a listing, a create or an update carries the
\* id of the roommate the event references and the name and color that
\* roommate has now; a listing without bounds shows every event.
C17_JoinedRoommate ==
    (pc = "done" /\ req.op \in {"list_events", "create_event", "update_event"}) =>
        /\ \A d \in Shown(resp) :
            \E e \in events :
                /\ e.id = d.id
                /\ d.roommate.id = e.roommate_id
                /\ d.roommate.name = roommates[e.roommate_id].name
                /\ d.roommate.color = roommates[e.roommate_id].color
        /\ (req.op = "list_events" /\ DOMAIN req.args = {}) =>
                Ids(resp.list) = {e.id : e \in events}

\* a listing shows an event of the first roommate under the name and color
\* that roommate updates gave it
C17_Witness ==
    /\ Answered("list_events")
    /\ roommates = before.roommates
    /\ \E d \in Elems(resp.list) :
        /\ d.roommate.id = 1
        /\ d.roommate.name = Ann
        /\ d.roommate.color = <<"#", "1">>

(***************************************************************************)
(* The order of the checks of create_event and update_event.               *)
(***************************************************************************)
\* the timestamp of a key of the body does not normalize
FailsNormalization(data, key) == ~Norm(data, key).ok

\* C18: create_event applies its checks in a fixed order and the first one
\* that fails decides the response: a missing or falsy roommate_id (400
\* "roommate_id is required"), then an unknown roommate (400 "invalid
\* roommate_id"), then a start or end that does not normalize (400 "invalid
\* start or end ISO datetime"), then start >= end (400 "end must be after
\* start"), and only then the conflict detection (201 or 409); every request
\* that is not answered 201 leaves the events table unchanged.
C18_CreateCheckOrder ==
    Answered("create_event") =>
        /\ IF ~Truthy(Get(req.data, "roommate_id"))
           THEN resp.status = 400 /\ resp.error = "roommate_id is required"
           ELSE IF ~RoommateExists(Get(req.data, "roommate_id"))
           THEN resp.status = 400 /\ resp.error = "invalid roommate_id"
           ELSE IF FailsNormalization(req.data, "start")
                   \/ FailsNormalization(req.data, "end")
           THEN /\ resp.status = 400
                /\ resp.error = "invalid start or end ISO datetime"
           ELSE IF ~StrLess(Norm(req.data, "start").s, Norm(req.data, "end").s)
           THEN resp.status = 400 /\ resp.error = "end must be after start"
           ELSE resp.status \in {201, 409}
        /\ resp.status # 201 =>
                events = before.events /\ nextId = before.nextId

\* C19: update_event applies its checks in a fixed order: an unknown event
\* id is answered 404 whatever the body holds; then the fields of the body
\* are validated (unknown roommate: 400 "invalid roommate_id"; a start or end
\* that does not normalize: 400 "invalid start" / "invalid end"); then a
\* body with no recognized field is answered 400 "no fields to update"; then
\* the effective interval is checked (400 "end must be after start"); every
\* update that is not answered 200 leaves every persisted event unchanged.
C19_UpdateCheckOrder ==
    Answered("update_event") =>
        /\ IF Rows(before.events, req.eid) = {}
           THEN resp.status = 404 /\ resp.error = "not found"
           ELSE IF /\ "roommate_id" \in DOMAIN req.data
                   /\ ~RoommateExists(req.data.roommate_id)
           THEN resp.status = 400 /\ resp.error = "invalid roommate_id"
           ELSE IF /\ "start" \in DOMAIN req.data
                   /\ FailsNormalization(req.data, "start")
           THEN resp.status = 400 /\ resp.error = "invalid start"
           ELSE IF /\ "end" \in DOMAIN req.data
                   /\ FailsNormalization(req.data, "end")
           THEN resp.status = 400 /\ resp.error = "invalid end"
           ELSE IF DOMAIN req.data \cap EventFields = {}
           THEN resp.status = 400 /\ resp.error = "no fields to update"
           ELSE IF \E row \in Rows(before.events, req.eid) :
                        ~StrLess(Effective(row, req.data, "start"),
                                 Effective(row, req.data, "end"))
           THEN resp.status = 400 /\ resp.error = "end must be after start"
           ELSE resp.status = 200
        /\ resp.status # 200 =>
                events = before.events /\ nextId = before.nextId


update_event_check(eid, data) ==
    IF EventById(eid) = {}
    THEN Ended(Error(404, "not found"))
    ELSE Let(Stage(data), LAMBDA st :
         Let(CHOOSE existing \in EventById(eid) : TRUE, LAMBDA existing :
             IF st.done THEN st
             ELSE IF st.fields = <<>>
             THEN Ended(Error(400, "no fields to update"))
             ELSE IF InvalidInterval(EffectiveStart(st, existing),
                                     EffectiveEnd(st, existing))
             THEN Ended(Error(400, "end must be after start"))
             ELSE st))

\* the worker w takes an update request and runs it up to the UPDATE
update_event_begin(w, eid, data) ==
    /\ pc[w] = "idle"
    /\ req' = [req EXCEPT ![w] = [op |-> "update_event", eid |-> eid, data |-> data]]
    /\ before' = [before EXCEPT ![w] = Snapshot(events, nextId)]
    /\ \E out \in {update_event_check(eid, data)} :
        IF out.done
        THEN /\ pc' = [pc EXCEPT ![w] = "done"]
             /\ resp' = [resp EXCEPT ![w] = out.response]
        ELSE /\ pc' = [pc EXCEPT ![w] = "validated"]
             /\ resp' = [resp EXCEPT ![w] = NoResponse]
    /\ UNCHANGED <<db_mode, roommates, nextRoommateId, events, nextId>>

\* the rest of update_event: the UPDATE of the staged columns on the row as
\* it is now, commit, the conflicts of the interval computed before, the row
\* read back, 200
update_event_write(w) ==
    /\ pc[w] = "validated"
    /\ pc' = [pc EXCEPT ![w] = "done"]
    /\ \E st \in {Stage(req[w].data)},
          existing \in Rows(before[w].events, req[w].eid),
          row \in EventById(req[w].eid) :
        /\ events' = (events \ {row}) \cup {ApplyUpdate(row, st.fields, st.args)}
        /\ \E conflicts \in find_conflicts(events', EffectiveEnd(st, existing),
                                           EffectiveStart(st, existing),
                                           <<req[w].eid>>) :
            resp' = [resp EXCEPT ![w] =
                        Response(200, "", ReadEvent(events', req[w].eid),
                                 conflicts, <<>>)]
    /\ UNCHANGED <<db_mode, roommates, nextRoommateId, nextId, req, before>>

\* the creates and the updates the concurrent clients send: an interview of
\* day 1 from 9 to 11, and updates that move its start to 10, its end to 10
\* or its end to 9
UpdateRaceCreates ==
    {[roommate_id |-> JInt(1), start |-> JStr(NaiveText(9)),
      end |-> JStr(NaiveText(11))]}

UpdateRaceBodies ==
    {[start |-> JStr(NaiveText(10))],
     [end |-> JStr(NaiveText(10))],
     [end |-> JStr(NaiveText(9))]}

UpdateRaceCreate ==
    \E w \in Workers : \E data \in UpdateRaceCreates : create_event_begin(w, data)

UpdateRaceBegin ==
    \E w \in Workers : \E eid \in 1..RaceMaxId : \E data \in UpdateRaceBodies :
        update_event_begin(w, eid, data)

UpdateRaceWrite == \E w \in Workers : update_event_write(w)

UpdateRaceNext ==
    \/ UpdateRaceCreate
    \/ RaceInsert
    \/ UpdateRaceBegin
    \/ UpdateRaceWrite
    \/ RaceTeardown

SpecUpdateRace == RaceInit /\ [][UpdateRaceNext]_vars

\* C21: start < end also holds under interleaved requests: when two updates
\* of the same event run concurrently, each computing its effective interval
\* from the row it read before the other committed, every persisted event
\* satisfies start < end once both have completed.
C21_ConcurrentUpdates ==
    (\A w \in Workers : pc[w] \in {"idle", "done"}) =>
        \A e \in events : StrLess(e.start, e.end)

(***************************************************************************)
(* The errors of PUT /api/roommates/<rid>.                                 *)
(***************************************************************************)
\* C22: a roommate update that ends in an error (404 unknown id, 400 empty
\* name or empty color, 409 duplicate name) leaves the persisted name and
\* color of that roommate, and of every other, unchanged; also when the body
\* carries a valid new name together with an empty color.
C22_RoommateUpdateError ==
    (/\ Answered("update_roommate")
     /\ resp.status \in {400, 404, 409}) => roommates = before.roommates

====
